---- MODULE Spec2Model ----
(***************************************************************************)
(* A model of file-organiser.py: the one-time batch drain of the watched   *)
(* root (batch_classify, apply_moves) followed by live reconciliation of   *)
(* newly created files (OrganizerHandler.on_created, handle_new_file,       *)
(* classify_single_file).                                                   *)
(*                                                                         *)
(* Strings are sequences of one-character strings, so that startswith,     *)
(* replace, strip and the substring test are computed as Python computes    *)
(* them.  A path is the sequence of its components below BASE_FOLDER.       *)
(* The provider's reply is a sequence of tokens (a code fence, prose, a     *)
(* JSON value, text that is no JSON); a JSON value is a tagged record.      *)
(***************************************************************************)
EXTENDS Integers, Sequences, FiniteSets, TLC

VARIABLES
    fs,                \* the filesystem: the watched root and its parent directory
    pc,                \* where the main thread is
    files_to_process,  \* the initial scan's list (line 143)
    raw,               \* batch_classify: the provider's reply being processed
    folder_map,        \* the plan returned by batch_classify
    fi,                \* apply_moves: index of the current folder of the plan
    mi,                \* apply_moves: index of the current file of that folder
    log,               \* the status lines printed for move attempts
    requested,         \* names of the files put into a prompt so far
    observer,          \* whether observer.start() has run
    events,            \* the watcher's buffer of created-events not yet dispatched
    hstate,            \* where the observer thread's handler is
    file_path,         \* handle_new_file: the path being reconciled
    live_raw,          \* classify_single_file: the provider's reply being processed
    outcome,           \* how the last handle_new_file ended
    ext,               \* number of changes made by other programs so far
    san                \* sanitize_folder on its own: the argument and the results

vars == <<fs, pc, files_to_process, raw, folder_map, fi, mi, log, requested,
          observer, events, hstate, file_path, live_raw, outcome, ext, san>>

-----------------------------------------------------------------------------
(* Bounds of the model *)

\* changes other programs make to the watched root during a run
MaxExt == 2
\* keys of a batch reply in the full program's specification
MaxItems == 1
\* keys of a batch reply in the specification of batch_classify alone
MaxKeys == 6
\* length of the names given to sanitize_folder on its own
MaxLen == 3

-----------------------------------------------------------------------------
(* Configuration: lines 13-22 *)

MAX_FOLDERS == 5

\* the watched root, as a path relative to itself
BASE_FOLDER == <<>>

IGNORED_FILENAMES ==
    { <<".", "D", "S", "_", "S", "t", "o", "r", "e">>,
      <<".", "g", "i", "t", "i", "g", "n", "o", "r", "e">>,
      <<"T", "h", "u", "m", "b", "s", ".", "d", "b">> }

-----------------------------------------------------------------------------
(* Strings *)

\* the characters str.strip() removes
Whitespace == {" ", "\t", "\n"}

\* s.startswith(p)
StartsWith(s, p) == Len(s) >= Len(p) /\ SubSeq(s, 1, Len(p)) = p

\* s.replace(old, new) for a one-character old
ReplaceChar(s, old, new) == [k \in 1..Len(s) |-> IF s[k] = old THEN new ELSE s[k]]

RECURSIVE LStrip(_)
LStrip(s) == IF s # <<>> /\ Head(s) \in Whitespace THEN LStrip(Tail(s)) ELSE s

RECURSIVE RStrip(_)
RStrip(s) ==
    IF s # <<>> /\ s[Len(s)] \in Whitespace THEN RStrip(SubSeq(s, 1, Len(s) - 1)) ELSE s

\* s.strip()
Strip(s) == RStrip(LStrip(s))

\* part in whole, for two strings: part occurs in whole as a substring
IsSubstring(part, whole) ==
    \E k \in 0..(Len(whole) - Len(part)) : SubSeq(whole, k + 1, k + Len(part)) = part

\* Path.name and Path.parent
PathName(p) == p[Len(p)]
PathParent(p) == SubSeq(p, 1, Len(p) - 1)

\* the mutant of should_ignore: the hidden-file test is missing
should_ignore_set_only(name) == name \in IGNORED_FILENAMES

should_ignore(name) == StartsWith(name, <<".">>) \/ name \in IGNORED_FILENAMES

\* the mutant of sanitize_folder: strip first, then a space for each separator
sanitize_folder_space(name) == ReplaceChar(Strip(name), "/", " ")

sanitize_folder(name) == Strip(ReplaceChar(name, "/", "_"))

-----------------------------------------------------------------------------
(* The provider's reply and json.loads *)

\* tokens of a reply
FenceJson == [tok |-> "fence_json"]
Fence == [tok |-> "fence"]
Prose == [tok |-> "prose"]
Garbage == [tok |-> "garbage"]
Json(v) == [tok |-> "json", val |-> v]

\* JSON values; an object is the sequence of its members, keys distinct
JObj(items) == [t |-> "obj", items |-> items]
JList(names) == [t |-> "list", names |-> names]
JStr(s) == [t |-> "str", s |-> s]
JNum == [t |-> "num"]
JNull == [t |-> "null"]
Member(k, v) == [key |-> k, val |-> v]

IsFence(t) == t.tok \in {"fence_json", "fence"}

\* lines 100-101: a reply that starts with a code fence loses every fence marker
StripFence(text) ==
    IF text # <<>> /\ IsFence(text[1])
    THEN SelectSeq(text, LAMBDA t : ~IsFence(t))
    ELSE text

\* json.loads: the text must be exactly one JSON value
JsonLoads(text) ==
    IF Len(text) = 1 /\ text[1].tok = "json"
    THEN [ok |-> TRUE, val |-> text[1].val]
    ELSE [ok |-> FALSE, val |-> JNull]

\* the keys of a JSON object
Keys(obj) == {obj.items[k].key : k \in 1..Len(obj.items)}

\* dict.get(key, default)
DictGet(obj, key, default) ==
    IF key \in Keys(obj)
    THEN (CHOOSE m \in {obj.items[k] : k \in 1..Len(obj.items)} : m.key = key).val
    ELSE default

-----------------------------------------------------------------------------
(* batch_classify: lines 46-122 *)

\* f.name in filenames raises TypeError unless filenames is a container
SupportsIn(val) == val.t \in {"list", "str", "obj"}

\* name in filenames (line 115) for a list, a string or an object
NameIn(name, val) ==
    CASE val.t = "list" -> \E k \in 1..Len(val.names) : val.names[k] = name
      [] val.t = "str" -> IsSubstring(name, val.s)
      [] val.t = "obj" -> name \in Keys(val)
      [] OTHER -> FALSE

\* the mutant of AddToPlan: one folder per (folder, file) pair
AddToPlanPerFile(plan, clean_folder, f) ==
    Append(plan, [folder |-> clean_folder \o <<"_">> \o PathName(f), files |-> <<f>>])

\* folder_map.setdefault(clean_folder, []).append(f)
AddToPlan(plan, clean_folder, f) ==
    IF \E k \in 1..Len(plan) : plan[k].folder = clean_folder
    THEN [k \in 1..Len(plan) |->
             IF plan[k].folder = clean_folder
             THEN [plan[k] EXCEPT !.files = Append(@, f)]
             ELSE plan[k]]
    ELSE Append(plan, [folder |-> clean_folder, files |-> <<f>>])

\* the mutant of ItemFiles: every listed name is taken to be a file of the root
ItemFilesTrusting(files, filenames) ==
    IF filenames.t = "list"
    THEN [k \in 1..Len(filenames.names) |-> BASE_FOLDER \o <<filenames.names[k]>>]
    ELSE <<>>

\* the mutant of ItemFiles: the test of line 115 is missing
ItemFilesAll(files, filenames) == files

\* for f in files: if f.name in filenames (lines 114-115): the files one member adds
ItemFiles(files, filenames) ==
    SelectSeq(files, LAMBDA f : NameIn(PathName(f), filenames))

RECURSIVE AppendAll(_, _, _)
AppendAll(plan, clean_folder, fseq) ==
    IF fseq = <<>> THEN plan
    ELSE AppendAll(AddToPlan(plan, clean_folder, Head(fseq)), clean_folder, Tail(fseq))

\* for folder, filenames in data.items() (lines 112-116)
RECURSIVE BuildPlan(_, _, _)
BuildPlan(files, items, plan) ==
    IF items = <<>> THEN [raised |-> FALSE, plan |-> plan]
    ELSE IF files # <<>> /\ ~SupportsIn(Head(items).val)
    THEN [raised |-> TRUE, plan |-> plan]
    ELSE BuildPlan(files, Tail(items),
                   AppendAll(plan, sanitize_folder(Head(items).key),
                             ItemFiles(files, Head(items).val)))

\* the mutant of batch_classify: the try around json.loads is missing
batch_classify_no_except(files, text) ==
    LET data == JsonLoads(StripFence(text))
    IN  IF ~data.ok \/ data.val.t # "obj"
        THEN [raised |-> TRUE, plan |-> <<>>]
        ELSE BuildPlan(files, data.val.items, <<>>)

\* what batch_classify returns, or that it raised
batch_classify(files, text) ==
    LET data == JsonLoads(StripFence(text))
    IN  IF ~data.ok THEN [raised |-> FALSE, plan |-> <<>>]
        ELSE IF data.val.t # "obj" THEN [raised |-> TRUE, plan |-> <<>>]
        ELSE BuildPlan(files, data.val.items, <<>>)

-----------------------------------------------------------------------------
(* The filesystem.  fs.root maps the names of the watched root's entries  *)
(* to entries, fs.parent those of the directory that holds the root.  A   *)
(* file carries its content, a directory its own entries.                 *)

File(d) == [kind |-> "file", data |-> d]
Dir(entries) == [kind |-> "dir", entries |-> entries]
NoEntries == [n \in {} |-> File("none")]

\* a directory's entries with name n bound to entry e, and with n removed
Put(entries, n, e) == [m \in DOMAIN entries \cup {n} |-> IF m = n THEN e ELSE entries[m]]
Del(entries, n) == [m \in DOMAIN entries \ {n} |-> entries[m]]

\* BASE_FOLDER / folder: pathlib drops "" and "." and keeps ".."
TargetKind(folder) ==
    CASE folder \in {<<>>, <<".">>} -> "root"
      [] folder = <<".", ".">> -> "parent"
      [] OTHER -> "child"

\* target.exists(), for target = BASE_FOLDER / folder
TargetExists(f, folder) ==
    TargetKind(folder) # "child" \/ folder \in DOMAIN f.root

\* target.is_dir()
TargetIsDir(f, folder) ==
    TargetKind(folder) # "child"
    \/ (folder \in DOMAIN f.root /\ f.root[folder].kind = "dir")

\* p.is_file(), for a path p below the root
IsFile(f, p) ==
    /\ Len(p) = 1
    /\ p[1] \in DOMAIN f.root
    /\ f.root[p[1]].kind = "file"

\* the names of the files and of the directories directly under the root
RootFiles(f) == {n \in DOMAIN f.root : f.root[n].kind = "file"}
RootDirs(f) == {n \in DOMAIN f.root : f.root[n].kind = "dir"}

\* target.mkdir(exist_ok=True): FileExistsError when target is no directory
Mkdir(f, folder) ==
    IF TargetIsDir(f, folder) THEN [raised |-> FALSE, fs |-> f]
    ELSE IF TargetExists(f, folder) THEN [raised |-> TRUE, fs |-> f]
    ELSE [raised |-> FALSE, fs |-> [f EXCEPT !.root = Put(@, folder, Dir(NoEntries))]]

\* shutil.move of entry e to dst = d/n, d a directory with the given entries:
\* a directory at dst takes e under e's name unless it holds that name
\* (shutil.Error); otherwise os.rename puts e at dst, replacing a file there
MoveInto(entries, n, e) ==
    IF n \in DOMAIN entries /\ entries[n].kind = "dir"
    THEN IF n \in DOMAIN entries[n].entries
         THEN [raised |-> TRUE, entries |-> entries]
         ELSE [raised |-> FALSE,
               entries |-> Put(entries, n, Dir(Put(entries[n].entries, n, e)))]
    ELSE [raised |-> FALSE, entries |-> Put(entries, n, e)]

\* shutil.move(str(src), BASE_FOLDER / folder / src.name), src directly in the root
ShutilMove(f, src, folder) ==
    LET n == PathName(src)
        fail == [raised |-> TRUE, fs |-> f]
    IN  IF n \notin DOMAIN f.root THEN fail                  \* FileNotFoundError
        ELSE CASE TargetKind(folder) = "root" ->
                    \* dst is src itself: os.rename(src, src) does nothing
                    [raised |-> FALSE, fs |-> f]
               [] TargetKind(folder) = "parent" ->
                    LET r == MoveInto(f.parent, n, f.root[n])
                    IN  IF r.raised THEN fail
                        ELSE [raised |-> FALSE,
                              fs |-> [root |-> Del(f.root, n), parent |-> r.entries]]
               [] OTHER ->
                    IF folder \notin DOMAIN f.root THEN fail  \* FileNotFoundError
                    ELSE IF f.root[folder].kind # "dir" THEN fail  \* NotADirectoryError
                    ELSE LET r == MoveInto(f.root[folder].entries, n, f.root[n])
                         IN  IF r.raised THEN fail
                             ELSE [raised |-> FALSE,
                                   fs |-> [f EXCEPT !.root =
                                              Put(Del(@, n), folder, Dir(r.entries))]]

-----------------------------------------------------------------------------
(* Names used by the model's runs *)

NameA == <<"a">>
NameB == <<"b">>
NameC == <<"c">>
NameHidden == <<".", "h">>
NameHiddenC == <<".", "c">>
NameThumbs == <<"T", "h", "u", "m", "b", "s", ".", "d", "b">>
\* a name no file ever has
NameGhost == <<"g">>
\* a directory another program creates
NameD == <<"D">>

FolderX == <<"X">>
FolderSpaceX == <<" ", "X">>
FolderXSlash == <<"X", "/">>
FolderY == <<"Y">>
FolderZ == <<"Z">>
FolderW == <<"W">>
FolderEmpty == <<>>
FolderDot == <<".">>
FolderDotDot == <<".", ".">>
KeyFolder == <<"f", "o", "l", "d", "e", "r">>

\* every sequence over S without repetition that lists all of S
Perms(S) ==
    {p \in [1..Cardinality(S) -> S] : \A a, b \in 1..Cardinality(S) : p[a] = p[b] => a = b}

-----------------------------------------------------------------------------
(* apply_moves: lines 125-136 *)

\* the mutant of try_move: the except clause is missing
try_move_no_except(f, src, folder) ==
    LET r == ShutilMove(f, src, folder)
    IN  [raised |-> r.raised, ok |-> ~r.raised, fs |-> r.fs]

\* lines 132-136: try shutil.move, except Exception report the failure
try_move(f, src, folder) ==
    LET r == ShutilMove(f, src, folder)
    IN  [raised |-> FALSE, ok |-> ~r.raised, fs |-> r.fs]

\* the status line of one attempt
Line(src, folder, ok) == [name |-> PathName(src), folder |-> folder, ok |-> ok]

-----------------------------------------------------------------------------
(* classify_single_file and handle_new_file: lines 157-220 *)

NoFolder == [raised |-> FALSE, none |-> TRUE, folder |-> <<>>]

\* lines 188-197: the folder, or None when anything in the try raises
classify_single_file(text) ==
    LET data == JsonLoads(StripFence(text))
    IN  IF ~data.ok THEN NoFolder                         \* json.loads raises
        ELSE IF data.val.t # "obj" THEN NoFolder          \* no .get: AttributeError
        ELSE LET v == DictGet(data.val, KeyFolder, JStr(<<>>))
             IN  IF v.t # "str" THEN NoFolder             \* no .replace: AttributeError
                 ELSE [raised |-> FALSE, none |-> FALSE, folder |-> sanitize_folder(v.s)]

\* the mutant of live_move: the except clause is missing
live_move_no_except(f, src, folder) ==
    LET r == ShutilMove(f, src, folder)
    IN  [raised |-> r.raised, ok |-> ~r.raised, fs |-> r.fs]

\* the mutant of live_move: the move is left out
live_move_skipped(f, src, folder) == [raised |-> FALSE, ok |-> FALSE, fs |-> f]

\* lines 216-220: try shutil.move, except Exception pass
live_move(f, src, folder) ==
    LET r == ShutilMove(f, src, folder)
    IN  [raised |-> FALSE, ok |-> ~r.raised, fs |-> r.fs]

\* the mutant of live_target: the folder is created when it is missing
live_target_mkdir(f, folder) ==
    LET m == Mkdir(f, folder) IN [go |-> ~m.raised, fs |-> m.fs]

\* lines 212-214: the target is used only when it exists
live_target(f, folder) == [go |-> TargetExists(f, folder), fs |-> f]

\* lines 208-220, given the provider's reply
handle_reply(f, path, text) ==
    LET c == classify_single_file(text)
    IN  IF c.raised THEN [raised |-> TRUE, outcome |-> "raised", fs |-> f, folder |-> <<>>]
        ELSE IF c.none \/ c.folder = <<>>
        THEN [raised |-> FALSE, outcome |-> "no_folder", fs |-> f, folder |-> <<>>]
        ELSE LET t == live_target(f, c.folder)
             IN  IF ~t.go
                 THEN [raised |-> FALSE, outcome |-> "no_target", fs |-> t.fs,
                       folder |-> c.folder]
                 ELSE LET m == live_move(t.fs, path, c.folder)
                      IN  [raised |-> m.raised,
                           outcome |-> IF m.raised THEN "raised"
                                       ELSE IF m.ok THEN "moved" ELSE "move_failed",
                           fs |-> m.fs, folder |-> c.folder]

-----------------------------------------------------------------------------
(* The replies the provider gives in the model's runs *)

\* the name lists of a batch reply's members
MainNameLists == {<<NameA>>, <<NameA, NameB>>, <<NameHidden, NameGhost>>}

\* the folder names a batch reply proposes
MainFolders == {FolderX, FolderY, NameB, FolderEmpty, FolderDot, FolderDotDot}

MainMembers == {Member(k, JList(l)) : k \in MainFolders, l \in MainNameLists}

\* the objects of at most n members with distinct keys
RECURSIVE Objects(_, _)
Objects(members, n) ==
    IF n = 0 THEN {<<>>}
    ELSE LET shorter == Objects(members, n - 1)
         IN  shorter \cup
             {Append(o, m) : o \in {x \in shorter : Len(x) = n - 1},
                             m \in members}

DistinctKeys(items) ==
    \A a, b \in 1..Len(items) : items[a].key = items[b].key => a = b

\* a JSON value as a reply: bare, fenced, fenced after prose
Bare(v) == <<Json(v)>>
Fenced(v) == <<FenceJson, Json(v), Fence>>
FencedPlain(v) == <<Fence, Json(v), Fence>>
AfterProse(v) == <<Prose, FenceJson, Json(v), Fence>>

\* the replies that json.loads rejects
BadReplies == {<<>>, <<Garbage>>, <<Fence, Garbage, Fence>>,
               AfterProse(JObj(<<Member(FolderX, JList(<<NameA>>))>>))}

\* valid JSON that is no object of lists
OddReplies == {Bare(JList(<<NameA>>)), Bare(JNull),
               Bare(JObj(<<Member(FolderX, JStr(<<"b", "a">>))>>)),
               Bare(JObj(<<Member(FolderX, JNum)>>))}

MainReplies ==
    {Bare(JObj(o)) : o \in {x \in Objects(MainMembers, MaxItems) : DistinctKeys(x)}}
    \cup {Fenced(JObj(<<Member(FolderX, JList(<<NameA>>))>>)),
          FencedPlain(JObj(<<Member(FolderX, JList(<<NameA>>))>>))}
    \cup BadReplies \cup OddReplies

\* the folder values of a live reply
LiveFolders == {FolderX, FolderSpaceX, FolderXSlash, NameB, FolderEmpty, FolderDot,
                FolderDotDot}

LiveFolderReply(v) == JObj(<<Member(KeyFolder, v)>>)

LiveReplies ==
    {Bare(LiveFolderReply(JStr(k))) : k \in LiveFolders}
    \cup {Fenced(LiveFolderReply(JStr(FolderX))),
          AfterProse(LiveFolderReply(JStr(FolderX))),
          <<>>, <<Garbage>>,
          Bare(JObj(<<>>)), Bare(JList(<<FolderX>>)), Bare(JStr(FolderX)),
          Bare(LiveFolderReply(JNum)), Bare(LiveFolderReply(JNull))}

-----------------------------------------------------------------------------
(* Initial states: the watched root before the program starts *)

RootFileSets == {{NameHidden}, {NameA, NameThumbs}, {NameA, NameB, NameHidden}}

\* what folder X holds before the run, when it exists
XLayouts ==
    {NoEntries,
     Put(NoEntries, NameA, File("old")),
     Put(NoEntries, NameA, Dir(NoEntries)),
     Put(NoEntries, NameA, Dir(Put(NoEntries, NameA, File("deep"))))}

InitialRoots ==
    LET files(S) == [n \in S |-> File("orig")]
    IN  {files(S) : S \in RootFileSets}
        \cup {Put(files(S), FolderX, Dir(x)) : S \in RootFileSets, x \in XLayouts}

InitWith(roots) ==
    /\ fs \in {[root |-> r, parent |-> NoEntries] : r \in roots}
    /\ pc = "scan"
    /\ files_to_process = <<>>
    /\ raw = <<>>
    /\ folder_map = <<>>
    /\ fi = 0
    /\ mi = 0
    /\ log = <<>>
    /\ requested = {}
    /\ observer = FALSE
    /\ events = <<>>
    /\ hstate = "Idle"
    /\ file_path = <<>>
    /\ live_raw = <<>>
    /\ outcome = "none"
    /\ ext = 0

\* sanitize_folder has not been called on its own
SanIdle == [x |-> <<>>, once |-> <<>>, twice |-> <<>>, calls |-> 0]

Init == InitWith(InitialRoots) /\ san = SanIdle

-----------------------------------------------------------------------------
(* The main thread: lines 141-152 and 231-239 *)

live_vars == <<observer, events, hstate, file_path, live_raw, outcome>>
batch_vars == <<pc, files_to_process, raw, folder_map, fi, mi>>

\* lines 143-150: the scan, and batch_classify up to the provider call
Scan ==
    /\ pc = "scan"
    /\ \E order \in Perms({n \in RootFiles(fs) : ~should_ignore(n)}) :
          /\ files_to_process' = [k \in DOMAIN order |-> BASE_FOLDER \o <<order[k]>>]
          /\ pc' = IF order = <<>> THEN "start" ELSE "call"
          /\ requested' = requested \cup {order[k] : k \in DOMAIN order}
    /\ UNCHANGED <<fs, raw, folder_map, fi, mi, log, ext>>
    /\ UNCHANGED live_vars
    /\ UNCHANGED san

\* lines 91-116: the reply arrives and the plan is built
BatchClassify(reply) ==
    /\ pc = "call"
    /\ raw' = reply
    /\ LET res == batch_classify(files_to_process, reply)
       IN  /\ folder_map' = res.plan
           /\ pc' = IF res.raised THEN "crashed" ELSE "built"
    /\ UNCHANGED <<fs, files_to_process, fi, mi, log, requested, ext>>
    /\ UNCHANGED live_vars
    /\ UNCHANGED san

BatchReceive == \E reply \in MainReplies : BatchClassify(reply)

\* lines 118-127: batch_classify returns and apply_moves starts
BatchReturn ==
    /\ pc = "built"
    /\ raw' = <<>>
    /\ pc' = IF folder_map = <<>> THEN "start" ELSE "mkdir"
    /\ fi' = IF folder_map = <<>> THEN 0 ELSE 1
    /\ UNCHANGED <<fs, files_to_process, folder_map, mi, log, requested, ext>>
    /\ UNCHANGED live_vars
    /\ UNCHANGED san

\* lines 128-129
ApplyMkdir ==
    /\ pc = "mkdir"
    /\ LET m == Mkdir(fs, folder_map[fi].folder)
       IN  /\ fs' = m.fs
           /\ pc' = IF m.raised THEN "crashed" ELSE "move"
           /\ mi' = IF m.raised THEN mi ELSE 1
    /\ UNCHANGED <<files_to_process, raw, folder_map, fi, log, requested, ext>>
    /\ UNCHANGED live_vars
    /\ UNCHANGED san

\* lines 131-136: one file of the current folder
ApplyMove ==
    /\ pc = "move"
    /\ LET folder == folder_map[fi].folder
           f == folder_map[fi].files[mi]
           m == try_move(fs, f, folder)
           more == mi < Len(folder_map[fi].files)
           last == fi = Len(folder_map)
       IN  /\ fs' = m.fs
           /\ log' = IF m.raised THEN log ELSE Append(log, Line(f, folder, m.ok))
           /\ pc' = IF m.raised THEN "crashed"
                    ELSE IF more THEN "move"
                    ELSE IF last THEN "start" ELSE "mkdir"
           /\ mi' = IF m.raised THEN mi ELSE IF more THEN mi + 1 ELSE 0
           /\ fi' = IF m.raised \/ more THEN fi ELSE IF last THEN 0 ELSE fi + 1
    /\ UNCHANGED <<files_to_process, raw, folder_map, requested, ext>>
    /\ UNCHANGED live_vars
    /\ UNCHANGED san

\* lines 231-233
StartObserver ==
    /\ pc = "start"
    /\ observer' = TRUE
    /\ pc' = "watching"
    \* the batch's list and plan are not read again
    /\ files_to_process' = <<>>
    /\ folder_map' = <<>>
    /\ UNCHANGED <<fs, raw, fi, mi, log, requested, ext>>
    /\ UNCHANGED <<events, hstate, file_path, live_raw, outcome>>
    /\ UNCHANGED san

-----------------------------------------------------------------------------
(* The observer thread: lines 200-228 *)

\* the mutant of OnCreated: events are dispatched while a handler is running
OnCreatedConcurrent ==
    /\ observer
    /\ events # <<>>
    /\ events' = Tail(events)
    /\ IF Head(events).is_directory
       THEN UNCHANGED <<hstate, file_path>>
       ELSE /\ hstate' = "Debouncing"
            /\ file_path' = Head(events).src_path
    /\ UNCHANGED <<fs, log, requested, observer, live_raw, outcome, ext>>
    /\ UNCHANGED batch_vars
    /\ UNCHANGED san

\* lines 224-227: the next event is dispatched
OnCreated ==
    /\ observer
    /\ hstate = "Idle"
    /\ events # <<>>
    /\ events' = Tail(events)
    /\ IF Head(events).is_directory
       THEN UNCHANGED <<hstate, file_path>>
       ELSE /\ hstate' = "Debouncing"
            /\ file_path' = Head(events).src_path
    /\ UNCHANGED <<fs, log, requested, observer, live_raw, outcome, ext>>
    /\ UNCHANGED batch_vars
    /\ UNCHANGED san

\* lines 228 and 200-206, then classify_single_file up to the provider call
HandleNewFile ==
    /\ hstate = "Debouncing"
    /\ LET skip == IF ~IsFile(fs, file_path) THEN "not_a_file"
                   ELSE IF PathParent(file_path) # BASE_FOLDER THEN "not_in_root"
                   ELSE IF should_ignore(PathName(file_path)) THEN "ignored"
                   ELSE "no"
       IN  /\ hstate' = IF skip = "no" THEN "Classifying" ELSE "Returned"
           /\ outcome' = IF skip = "no" THEN outcome ELSE skip
           /\ requested' = IF skip = "no" THEN requested \cup {PathName(file_path)}
                           ELSE requested
    /\ UNCHANGED <<fs, log, observer, events, file_path, live_raw, ext>>
    /\ UNCHANGED batch_vars
    /\ UNCHANGED san

\* lines 188-220: the reply arrives and the file is moved or left
HandleReply ==
    /\ hstate = "Classifying"
    /\ \E reply \in LiveReplies :
          LET r == handle_reply(fs, file_path, reply)
          IN  /\ live_raw' = reply
              /\ fs' = r.fs
              /\ outcome' = r.outcome
              /\ hstate' = IF r.raised THEN "Dead" ELSE "Returned"
              /\ log' = IF r.outcome = "moved"
                        THEN Append(log, Line(file_path, r.folder, TRUE))
                        ELSE log
    /\ UNCHANGED <<requested, observer, events, file_path, ext>>
    /\ UNCHANGED batch_vars
    /\ UNCHANGED san

\* handle_new_file and on_created return
HandleReturn ==
    /\ hstate = "Returned"
    /\ hstate' = "Idle"
    /\ file_path' = <<>>
    /\ live_raw' = <<>>
    /\ outcome' = "none"
    /\ UNCHANGED <<fs, log, requested, observer, events, ext>>
    /\ UNCHANGED batch_vars
    /\ UNCHANGED san

-----------------------------------------------------------------------------
(* Other programs, and the watcher that reports what they create *)

Created(n, isdir) == [src_path |-> BASE_FOLDER \o <<n>>, is_directory |-> isdir]

\* the event of a creation in the root, once the observer runs
Notify(n, isdir) ==
    events' = IF observer THEN Append(events, Created(n, isdir)) ELSE events

ExtCreateFile ==
    /\ ext < MaxExt
    /\ \E n \in {NameC, NameHiddenC} \ DOMAIN fs.root :
          /\ fs' = [fs EXCEPT !.root = Put(@, n, File("new"))]
          /\ Notify(n, FALSE)
    /\ ext' = ext + 1
    /\ UNCHANGED <<log, requested, observer, hstate, file_path, live_raw, outcome>>
    /\ UNCHANGED batch_vars
    /\ UNCHANGED san

ExtCreateDir ==
    /\ ext < MaxExt
    /\ NameD \notin DOMAIN fs.root
    /\ fs' = [fs EXCEPT !.root = Put(@, NameD, Dir(NoEntries))]
    /\ Notify(NameD, TRUE)
    /\ ext' = ext + 1
    /\ UNCHANGED <<log, requested, observer, hstate, file_path, live_raw, outcome>>
    /\ UNCHANGED batch_vars
    /\ UNCHANGED san

\* a file of the root is removed by another program
ExtRemove ==
    /\ ext < MaxExt
    /\ \E n \in RootFiles(fs) \cap {NameA, NameC} :
          fs' = [fs EXCEPT !.root = Del(@, n)]
    /\ ext' = ext + 1
    /\ UNCHANGED <<log, requested, observer, events, hstate, file_path, live_raw, outcome>>
    /\ UNCHANGED batch_vars
    /\ UNCHANGED san

-----------------------------------------------------------------------------
Next ==
    \/ Scan
    \/ BatchReceive
    \/ BatchReturn
    \/ ApplyMkdir
    \/ ApplyMove
    \/ StartObserver
    \/ OnCreated
    \/ HandleNewFile
    \/ HandleReply
    \/ HandleReturn
    \/ ExtCreateFile
    \/ ExtCreateDir
    \/ ExtRemove

Spec == Init /\ [][Next]_vars

-----------------------------------------------------------------------------
(* The batch drain alone, under replies of up to MaxKeys members.  While   *)
(* the call is pending, raw holds the reply as far as the provider has     *)
(* written it; its keys come in the order of BatchKeys.                    *)

BatchKeys == <<FolderSpaceX, FolderX, FolderXSlash, FolderY, FolderZ, FolderW, NameB>>

BatchNameLists == {<<NameA>>, <<NameA, NameB, NameGhost>>}

KeyIndex(key) == CHOOSE k \in DOMAIN BatchKeys : BatchKeys[k] = key

BatchRoots ==
    LET files == [n \in {NameA, NameB, NameHidden} |-> File("orig")]
    IN  {files,
         Put(files, FolderX, Dir(Put(NoEntries, NameA, File("old")))),
         Put(files, FolderX,
             Dir(Put(NoEntries, NameA, Dir(Put(NoEntries, NameA, File("deep"))))))}

InitBatch ==
    /\ InitWith(BatchRoots)
    /\ san = SanIdle

\* the provider writes one more member of its reply
ProviderEmit ==
    /\ pc = "call"
    /\ LET items == IF raw = <<>> THEN <<>> ELSE raw[1].val.items
           from == IF items = <<>> THEN 0 ELSE KeyIndex(items[Len(items)].key)
       IN  /\ Len(items) < MaxKeys
           /\ \E k \in (from + 1)..Len(BatchKeys), l \in BatchNameLists :
                  raw' = Bare(JObj(Append(items, Member(BatchKeys[k], JList(l)))))
    /\ UNCHANGED <<fs, pc, files_to_process, folder_map, fi, mi, log, requested, ext>>
    /\ UNCHANGED live_vars
    /\ UNCHANGED san

\* the reply is complete
BatchReceiveEmitted ==
    /\ raw # <<>>
    /\ BatchClassify(raw)

NextBatch ==
    \/ Scan
    \/ ProviderEmit
    \/ BatchReceiveEmitted
    \/ BatchReturn
    \/ ApplyMkdir
    \/ ApplyMove

SpecBatch == InitBatch /\ [][NextBatch]_vars

-----------------------------------------------------------------------------
(* sanitize_folder on its own: lines 40-41, on every name of up to MaxLen *)
(* characters with separators and whitespace in any place                 *)

NameChars == {"/", " ", "\t", "a", "_"}

\* the strings over NameChars of length n, of length up to n
StringsOfLen(n) == [1..n -> NameChars]
StringsUpTo(n) == UNION {StringsOfLen(k) : k \in 0..n}

InitSanitize ==
    /\ InitWith({NoEntries})
    /\ san \in {[SanIdle EXCEPT !.x = s] : s \in StringsUpTo(MaxLen)}

\* sanitize_folder(x)
SanitizeCall ==
    /\ san.calls = 0
    /\ san' = [san EXCEPT !.once = sanitize_folder(san.x), !.calls = 1]
    /\ UNCHANGED <<fs, log, requested, ext>>
    /\ UNCHANGED live_vars
    /\ UNCHANGED batch_vars

\* sanitize_folder of the result
SanitizeAgain ==
    /\ san.calls = 1
    /\ san' = [san EXCEPT !.twice = sanitize_folder(san.once), !.calls = 2]
    /\ UNCHANGED <<fs, log, requested, ext>>
    /\ UNCHANGED live_vars
    /\ UNCHANGED batch_vars

NextSanitize ==
    \/ SanitizeCall
    \/ SanitizeAgain

SpecSanitize == InitSanitize /\ [][NextSanitize]_vars

-----------------------------------------------------------------------------
(* Vocabulary of the properties *)

\* a name the program is to leave alone: hidden, or on the ignore list
IgnoredName(n) == (n # <<>> /\ n[1] = ".") \/ n \in IGNORED_FILENAMES

\* a reply json.loads accepts once the fences are stripped
Parses(text) == JsonLoads(StripFence(text)).ok

\* the members of a reply that is a JSON object
ReplyItems(text) == JsonLoads(StripFence(text)).val.items
IsObjectReply(text) == Parses(text) /\ JsonLoads(StripFence(text)).val.t = "obj"

\* a step of the main thread, of the observer thread; a step of another
\* program is one that changes ext
MainStep == ext' = ext /\ ~observer /\ vars' # vars
LiveStep == ext' = ext /\ observer /\ vars' # vars

\* the paths of the directories: under the root, inside those, beside the root
DirsOf(entries) == {n \in DOMAIN entries : entries[n].kind = "dir"}
AllDirs(f) ==
    {<<n>> : n \in DirsOf(f.root)}
    \cup UNION {{<<n, m>> : m \in DirsOf(f.root[n].entries)} : n \in DirsOf(f.root)}
    \cup {<<FolderDotDot, n>> : n \in DirsOf(f.parent)}

\* the files a sequence lists
Range(seq) == {seq[k] : k \in DOMAIN seq}

\* the folder BASE_FOLDER / folder is a directory under the root that holds name n
DestHolds(f, folder, n) ==
    /\ TargetKind(folder) = "child"
    /\ folder \in DirsOf(f.root)
    /\ n \in DOMAIN f.root[folder].entries

-----------------------------------------------------------------------------
(* Properties *)

\* C1: live mode never creates a folder: no step of the observer thread adds a
\* directory, under the root or anywhere else, whatever the provider replies.
C1_LiveCreatesNoFolder ==
    [][LiveStep => AllDirs(fs') \subseteq AllDirs(fs)]_vars

\* C1 witness: a new file was reconciled and the provider named a folder that
\* does not exist, so the file was left in the root.
C1_Witness ==
    /\ hstate = "Returned"
    /\ outcome = "no_target"
    /\ IsFile(fs, file_path)

\* C2: with no folder under the root, reconciling a new file always ends in a
\* skip and changes nothing on the filesystem, whatever the provider replies.
C2_NoFolderAlwaysSkipped ==
    [][(LiveStep /\ hstate = "Classifying" /\ RootDirs(fs) = {})
          => (fs' = fs /\ outcome' # "moved")]_vars

\* C3: the plan returned by batch_classify has at most MAX_FOLDERS keys, for
\* every provider reply.
C3_PlanWithinCeiling ==
    pc = "built" => Len(folder_map) <= MAX_FOLDERS

\* C4: when the reply has at most MAX_FOLDERS keys, so has the plan; the plan's
\* keys are sanitized keys of the reply, each once.
C4_HonoredCeilingIsKept ==
    (pc = "built" /\ IsObjectReply(raw)) =>
        /\ Len(ReplyItems(raw)) <= MAX_FOLDERS => Len(folder_map) <= MAX_FOLDERS
        /\ Len(folder_map) <= Len(ReplyItems(raw))

\* C4 witness: a reply of exactly MAX_FOLDERS keys, two of which sanitize to the
\* same folder, gave a plan of fewer keys.
C4_Witness ==
    /\ pc = "built"
    /\ IsObjectReply(raw)
    /\ Len(ReplyItems(raw)) = MAX_FOLDERS
    /\ Len(folder_map) = MAX_FOLDERS - 1
    /\ \E a, b \in DOMAIN ReplyItems(raw) :
          /\ a # b
          /\ sanitize_folder(ReplyItems(raw)[a].key) = sanitize_folder(ReplyItems(raw)[b].key)

\* C5: a move never destroys data: when the destination folder already holds an
\* entry of the file's name, the move fails and the filesystem is unchanged, in
\* batch and in live mode.
C5_MoveNeverOverwrites ==
    [][/\ (MainStep /\ pc = "move"
             /\ DestHolds(fs, folder_map[fi].folder, PathName(folder_map[fi].files[mi])))
          => (fs' = fs /\ Len(log') = Len(log) + 1 /\ ~log'[Len(log')].ok)
       /\ (LiveStep /\ hstate = "Classifying" /\ outcome' \in {"moved", "move_failed"}
             /\ DestHolds(fs, classify_single_file(live_raw').folder, PathName(file_path)))
          => (fs' = fs /\ outcome' = "move_failed")]_vars

\* C6: hallucination safety: every file of every member list of the plan is one
\* of the candidate files; a name only the provider came up with is in no list.
C6_PlanHoldsOnlyCandidates ==
    \A k \in DOMAIN folder_map : \A m \in DOMAIN folder_map[k].files :
        /\ folder_map[k].files[m] \in Range(files_to_process)
        /\ PathName(folder_map[k].files[m]) # NameGhost

\* C6 witness: the reply listed a name that is no candidate next to names that
\* are, and a plan was built.
C6_Witness ==
    /\ pc = "built"
    /\ folder_map # <<>>
    /\ \E k \in DOMAIN ReplyItems(raw) :
          NameGhost \in Range(ReplyItems(raw)[k].val.names)

\* C7: ignored files are in no classification request and are never moved: no
\* ignored name is in a prompt, in a status line of a move, or under a folder.
C7_IgnoredFilesUntouched ==
    /\ \A n \in requested : ~IgnoredName(n)
    /\ \A k \in DOMAIN log : ~IgnoredName(log[k].name)
    /\ outcome \in {"moved", "move_failed", "no_target", "no_folder"}
          => ~IgnoredName(PathName(file_path))
    /\ \A d \in DirsOf(fs.root) : \A n \in DOMAIN fs.root[d].entries : ~IgnoredName(n)
    /\ \A n \in DOMAIN fs.parent : ~IgnoredName(n)

\* C7 witness: the batch moved a file past a hidden file of the root, and a
\* created-event for a hidden file was dropped by handle_new_file.
C7_Witness ==
    /\ hstate = "Returned"
    /\ outcome = "ignored"
    /\ \E k \in DOMAIN log : log[k].ok
    /\ \E n \in RootFiles(fs) : IgnoredName(n) /\ <<n>> # file_path

\* C8: a reply that is no JSON gives an empty plan in batch mode and no folder
\* in live mode, and then no file is moved and no folder is created.
C8_UnparseableReplyChangesNothing ==
    [][/\ (MainStep /\ pc = "call" /\ ~Parses(raw'))
          => (pc' = "built" /\ folder_map' = <<>> /\ fs' = fs)
       /\ (MainStep /\ pc = "built" /\ ~Parses(raw))
          => (pc' = "start" /\ fs' = fs /\ log' = log)
       /\ (LiveStep /\ hstate = "Classifying" /\ ~Parses(live_raw'))
          => (hstate' = "Returned" /\ outcome' = "no_folder" /\ fs' = fs)]_vars

\* C8 witness: batch_classify has returned the empty plan for a fenced reply
\* that follows prose, with candidate files waiting in the root.
C8_Witness ==
    /\ pc = "built"
    /\ raw # <<>>
    /\ ~Parses(raw)
    /\ raw[1] = Prose
    /\ files_to_process # <<>>
    /\ folder_map = <<>>

\* C9: in apply_moves a failed move is caught: the attempt is reported and the
\* loop goes on to the next file of the folder, else to the next folder.
C9_FailedMoveIsIsolated ==
    [][(MainStep /\ pc = "move"
          /\ ShutilMove(fs, folder_map[fi].files[mi], folder_map[fi].folder).raised)
       => /\ log' = Append(log, Line(folder_map[fi].files[mi], folder_map[fi].folder, FALSE))
          /\ fs' = fs
          /\ IF mi < Len(folder_map[fi].files)
             THEN pc' = "move" /\ fi' = fi /\ mi' = mi + 1
             ELSE IF fi < Len(folder_map)
             THEN pc' = "mkdir" /\ fi' = fi + 1
             ELSE pc' = "start"]_vars

\* C9 witness: a move failed, a later file of the same folder was moved, and a
\* file of a later folder was moved.
C9_Witness ==
    \E a, b, c \in DOMAIN log :
        /\ a < b /\ b < c
        /\ ~log[a].ok
        /\ log[b].ok /\ log[b].folder = log[a].folder
        /\ log[c].ok /\ log[c].folder # log[a].folder

\* C10: live reconciliation never raises into the event loop: the handler is
\* never killed by an exception, whatever the reply and the filesystem.
C10_HandlerNeverRaises ==
    hstate # "Dead"

\* C10 witness: a move failed in handle_new_file, the handler is returning, and
\* a later created-event waits in the buffer.
C10_Witness ==
    /\ hstate = "Returned"
    /\ outcome = "move_failed"
    /\ events # <<>>

-----------------------------------------------------------------------------
(* Vocabulary of the properties of a whole run *)

\* file f is in a member list of the plan
InPlan(plan, f) == \E k \in DOMAIN plan : f \in Range(plan[k].files)

\* the value of one member of the reply mentions the name: as an element of
\* a list, within a string, or as a key of an object
Mentions(val, name) ==
    CASE val.t = "list" -> name \in Range(val.names)
      [] val.t = "str" ->
            \E a, b \in 1..Len(val.s) : a <= b /\ SubSeq(val.s, a, b) = name
      [] val.t = "obj" -> \E k \in DOMAIN val.items : val.items[k].key = name
      [] OTHER -> FALSE

\* the reply mentions the name under some folder
ReplyMentions(text, name) ==
    /\ IsObjectReply(text)
    /\ \E k \in DOMAIN ReplyItems(text) : Mentions(ReplyItems(text)[k].val, name)

RECURSIVE Occurrences(_, _)
Occurrences(items, name) ==
    IF items = <<>> THEN 0
    ELSE Cardinality({k \in DOMAIN Head(items).val.names : Head(items).val.names[k] = name})
         + Occurrences(Tail(items), name)

\* the reply is an object of lists that lists candidates only, each once
ListsEachOnce(text, files) ==
    /\ IsObjectReply(text)
    /\ \A k \in DOMAIN ReplyItems(text) :
          /\ ReplyItems(text)[k].val.t = "list"
          /\ \A n \in Range(ReplyItems(text)[k].val.names) : BASE_FOLDER \o <<n>> \in Range(files)
    /\ \A f \in Range(files) : Occurrences(ReplyItems(text), PathName(f)) = 1

\* the plan's keys are the sanitized keys of the reply, and each key's members
\* are the files the reply lists under the keys that sanitize to it
PlanIsReply(plan, text) ==
    /\ {plan[k].folder : k \in DOMAIN plan}
          = {sanitize_folder(ReplyItems(text)[k].key) : k \in DOMAIN ReplyItems(text)}
    /\ \A k \in DOMAIN plan :
          {PathName(f) : f \in Range(plan[k].files)}
             = UNION {Range(ReplyItems(text)[j].val.names) :
                        j \in {i \in DOMAIN ReplyItems(text) :
                                 sanitize_folder(ReplyItems(text)[i].key) = plan[k].folder}}

\* every candidate is in exactly one member list of the plan, once
EachOnceInPlan(plan, files) ==
    \A f \in Range(files) :
        Cardinality({<<k, m>> \in (DOMAIN plan) \X (1..Len(files)) :
                        m \in DOMAIN plan[k].files /\ plan[k].files[m] = f}) = 1

\* the file with the given content is at root/<folder>/<name>, folder a
\* directory directly under the root, and no entry of that name is in the root
AtFolder(f, folder, name, data) ==
    /\ folder \in DirsOf(f.root)
    /\ name \in DOMAIN f.root[folder].entries
    /\ f.root[folder].entries[name] = File(data)
    /\ name \notin DOMAIN f.root

\* C12: batch end to end: when the reply lists each candidate under exactly one
\* folder, the plan has the sanitized folder names as keys with the stated
\* members, and apply_moves ends with each folder a directory under the root
\* and each file at root/<folder>/<name> and no longer in the root.
C12_BatchEndToEnd ==
    /\ (pc = "built" /\ ListsEachOnce(raw, files_to_process))
          => PlanIsReply(folder_map, raw)
    /\ (pc \in {"start", "crashed"} /\ ext = 0 /\ folder_map # <<>>
          /\ EachOnceInPlan(folder_map, files_to_process))
          => /\ pc = "start"
             /\ \A k \in DOMAIN folder_map : \A f \in Range(folder_map[k].files) :
                    AtFolder(fs, folder_map[k].folder, PathName(f), "orig")

\* C13: live end to end: for an eligible file of the root, when the folder the
\* provider returns (as classify_single_file hands it on) is a directory
\* directly under the root that holds no entry of the file's name,
\* handle_new_file moves the file to root/<folder>/<name>, keeping its name and
\* content, and the file is no longer in the root; nothing else changes.
C13_LiveEndToEnd ==
    [][(/\ LiveStep
        /\ hstate = "Classifying"
        /\ IsFile(fs, file_path)
        /\ ~classify_single_file(live_raw').none
        /\ classify_single_file(live_raw').folder \in RootDirs(fs)
        /\ ~DestHolds(fs, classify_single_file(live_raw').folder, PathName(file_path)))
       => LET folder == classify_single_file(live_raw').folder
              name == PathName(file_path)
          IN  /\ hstate' = "Returned"
              /\ outcome' = "moved"
              /\ name \notin DOMAIN fs'.root
              /\ folder \in RootDirs(fs')
              /\ DOMAIN fs'.root[folder].entries
                    = DOMAIN fs.root[folder].entries \cup {name}
              /\ fs'.root[folder].entries[name] = fs.root[name]
              /\ \A n \in DOMAIN fs.root[folder].entries :
                    fs'.root[folder].entries[n] = fs.root[folder].entries[n]
              /\ \A n \in DOMAIN fs.root \ {name, folder} :
                    n \in DOMAIN fs'.root /\ fs'.root[n] = fs.root[n]
              /\ fs'.parent = fs.parent]_vars

\* C13 witness: handle_new_file has moved the created file into a folder of
\* the root: the file is there with its content and no longer in the root.
C13_Witness ==
    /\ hstate = "Returned"
    /\ outcome = "moved"
    /\ log # <<>>
    /\ log[Len(log)].name = PathName(file_path)
    /\ AtFolder(fs, log[Len(log)].folder, PathName(file_path), "new")

\* a string: a finite sequence of characters
IsString(s) == DOMAIN s = 1..Len(s) /\ \A k \in DOMAIN s : s[k] \in NameChars

\* C14: sanitize_folder is total and idempotent: for every name, also with
\* separators, surrounding whitespace or both, it returns a string, and
\* sanitizing the result gives the result again.
C14_SanitizeIdempotentTotal ==
    /\ san.calls >= 1 => IsString(san.once)
    /\ san.calls = 2 => (IsString(san.twice) /\ san.twice = san.once)

\* C14 witness: a name with a separator and surrounding whitespace was
\* sanitized twice, and the first call changed it.
C14_Witness ==
    /\ san.calls = 2
    /\ \E k \in DOMAIN san.x : san.x[k] = "/"
    /\ san.x[1] \in Whitespace
    /\ san.x[Len(san.x)] \in Whitespace
    /\ san.once # san.x
    /\ san.once # <<>>

\* the indices of the plan's folders that list file f
FoldersOf(plan, f) == {k \in DOMAIN plan : f \in Range(plan[k].files)}

\* the largest element of a nonempty set of numbers
Max(S) == CHOOSE m \in S : \A n \in S : n <= m

\* C15: a candidate the reply lists under two folders is moved twice and, when
\* apply_moves has finished, is in the later of the two folders of the plan.
C15_FileEndsInLaterFolder ==
    (pc = "start" /\ folder_map # <<>>) =>
        \A f \in Range(files_to_process) :
            Cardinality(FoldersOf(folder_map, f)) = 2 =>
                /\ AtFolder(fs, folder_map[Max(FoldersOf(folder_map, f))].folder,
                            PathName(f), "orig")
                /\ Cardinality({i \in DOMAIN log :
                                  log[i].name = PathName(f) /\ log[i].ok}) = 2

\* the reply lists exactly this name, as an element of a list, under a key
\* that sanitizes to the folder
ListsUnder(text, folder, name) ==
    /\ IsObjectReply(text)
    /\ \E k \in DOMAIN ReplyItems(text) :
          /\ sanitize_folder(ReplyItems(text)[k].key) = folder
          /\ ReplyItems(text)[k].val.t = "list"
          /\ name \in Range(ReplyItems(text)[k].val.names)

\* C16: the reply is validated before use: for every reply text, valid JSON of
\* the wrong shape included, batch_classify returns a plan without raising, and
\* a file is under a folder of the plan only if the reply lists exactly that
\* file name under that folder.
C16_BatchReplyIsValidated ==
    [][(MainStep /\ pc = "call") =>
          /\ pc' = "built"
          /\ \A k \in DOMAIN folder_map' : \A f \in Range(folder_map'[k].files) :
                ListsUnder(raw', folder_map'[k].folder, PathName(f))]_vars

\* C17: the batch drain never aborts: for any plan, also one whose folder is
\* the name of an existing entry of the root that is no directory, every step
\* of apply_moves goes on to the next file or folder of the plan, or returns
\* so that the watcher is started.
C17_BatchDrainNeverAborts ==
    [][(MainStep /\ pc \in {"mkdir", "move"}) =>
          \/ pc' = "move"
          \/ pc' = "mkdir" /\ fi' = fi + 1
          \/ pc' = "start" /\ fi = Len(folder_map)]_vars

\* the sequence lists every element of the set, each once
ListsOnce(seq, S) ==
    /\ Range(seq) = S
    /\ \A a, b \in DOMAIN seq : seq[a] = seq[b] => a = b

\* the watcher runs and has nothing left to do
Quiescent == pc = "watching" /\ hstate = "Idle" /\ events = <<>>

\* C18: no eligible file is missed: the scan submits every eligible file of the
\* root to batch classification exactly once, and every eligible file created
\* in the root after the scan, also while the batch is still running, is
\* passed to handle_new_file: once the watcher has nothing left to do, every
\* such file still in the root has been through handle_new_file.
C18_NoEligibleFileMissed ==
    [][/\ (MainStep /\ pc = "scan") =>
             ListsOnce(files_to_process',
                       {BASE_FOLDER \o <<n>> : n \in {m \in RootFiles(fs) : ~should_ignore(m)}})
       /\ Quiescent' =>
             \A n \in RootFiles(fs') :
                 (~should_ignore(n) /\ fs'.root[n] = File("new")) => n \in requested']_vars

\* the steps of the handler's state machine; Returned stands for the end of
\* the move or of the skip
HandlerSteps ==
    {<<"Idle", "Debouncing">>, <<"Debouncing", "Classifying">>,
     <<"Debouncing", "Returned">>, <<"Classifying", "Returned">>,
     <<"Returned", "Idle">>}

C20_MovesStayUnderRoot ==
    [][ext' = ext =>
          /\ fs'.parent = fs.parent
          /\ (Len(log') = Len(log) + 1 /\ log'[Len(log')].ok) =>
                LET folder == log'[Len(log')].folder
                    name == log'[Len(log')].name
                IN  /\ name \in DOMAIN fs.root
                    /\ name \notin DOMAIN fs'.root
                    /\ folder \in DirsOf(fs'.root)
                    /\ name \in DOMAIN fs'.root[folder].entries
                    /\ fs'.root[folder].entries[name] = fs.root[name]]_vars

====
